---- MODULE Spec2Model ----
(***************************************************************************)
(* State-machine model of src/main.py, the Streamlit "Simple Auto Finance  *)
(* App": the category -> keyword rule store kept in                        *)
(* st.session_state.categories and in categories.json, the loading and     *)
(* keyword classification of an uploaded transaction table, and the        *)
(* handlers of the "Add Category" and "Apply Changes" buttons.             *)
(*                                                                         *)
(* One step of the model is one user interaction: Streamlit reruns the     *)
(* whole script (module prologue, then main()) with the widget values of   *)
(* that interaction, and the step runs to the end of the script.           *)
(*                                                                         *)
(* Text is a sequence of one-character strings, so that str.lower() and    *)
(* str.strip() are computed and not assumed.  A Python dict is a record of *)
(* its keys in insertion order and its key -> value function; the JSON     *)
(* file is a sequence of <<key, list>> members.                            *)
(***************************************************************************)
EXTENDS Naturals, Sequences, FiniteSets

VARIABLES
    categories,     \* st.session_state.categories
    file,           \* categories.json on disk
    uploaded_file,  \* value of the st.file_uploader widget
    sample_file,    \* st.session_state.uploaded_file (set by the sample button)
    debits_df,      \* st.session_state.debits_df
    credits_df,     \* st.session_state.credits_df
    view,           \* how far the last script run got
    last            \* the last interaction: its widget inputs and what it observed

vars == <<categories, file, uploaded_file, sample_file, debits_df, credits_df, view, last>>

-----------------------------------------------------------------------------
(* Bounds and input domains *)

MaxRows == 2

None == [none |-> TRUE]

\* Texts of the Details column in uploaded files: upper case with a trailing
\* blank, and blank only.
DetailsTexts == { <<"A", " ">>, <<" ">> }

\* What the user can type into "New Category Name" (the empty text included).
CategoryNames == { "", "Uncategorized", "Food", "Rent" }

RequiredColumns == { "Date", "Details", "Amount", "Debit/Credit" }

TableRows == [Details : DetailsTexts, DC : {"Debit"}]

RECURSIVE SeqsUpTo(_, _)
SeqsUpTo(S, n) ==
    IF n = 0 THEN { <<>> }
    ELSE LET shorter == SeqsUpTo(S, n - 1)
         IN  shorter \cup { Append(s, e) : s \in { t \in shorter : Len(t) = n - 1 }, e \in S }

\* Well-formed CSV files: every required column, up to MaxRows rows.
GoodTables == { [columns |-> RequiredColumns, rows |-> r] : r \in SeqsUpTo(TableRows, MaxRows) }

\* CSV files that lack a required column (the cells of the other columns are
\* read as usual): one read inside the try of load_transactions, the one read by
\* main(), and the one read only while matching rows against keywords.
MissingColumnTables ==
    { [columns |-> RequiredColumns \ {c}, rows |-> << [Details |-> <<"A", " ">>, DC |-> "Debit"] >>] :
        c \in {"Amount", "Debit/Credit", "Details"} }
    \cup { [columns |-> RequiredColumns \ {"Details"}, rows |-> <<>>] }

Tables == GoodTables \cup MissingColumnTables

\* sample_bank_statement.csv
SampleTable ==
    [columns |-> RequiredColumns,
     rows    |-> << [Details |-> <<"A", " ">>, DC |-> "Debit"], [Details |-> <<"A", " ">>, DC |-> "Credit"] >>]

-----------------------------------------------------------------------------
(* str.lower() and str.strip() *)

LowerChar(c) == IF c = "A" THEN "a" ELSE c

lower(s) == [i \in 1..Len(s) |-> LowerChar(s[i])]

RECURSIVE lstrip(_)
lstrip(s) == IF s # <<>> /\ Head(s) = " " THEN lstrip(Tail(s)) ELSE s

RECURSIVE rstrip(_)
rstrip(s) == IF s # <<>> /\ s[Len(s)] = " " THEN rstrip(SubSeq(s, 1, Len(s) - 1)) ELSE s

strip(s) == rstrip(lstrip(s))

-----------------------------------------------------------------------------
(* dict and JSON *)

Range(s) == { s[i] : i \in 1..Len(s) }

DictKeys(d) == Range(d.keys)

\* d[k] = v : a new key goes last, an old key keeps its place.
DictSet(d, k, v) ==
    IF k \in DictKeys(d)
    THEN [keys |-> d.keys, val |-> [d.val EXCEPT ![k] = v]]
    ELSE [keys |-> Append(d.keys, k),
          val  |-> [x \in DictKeys(d) \cup {k} |-> IF x = k THEN v ELSE d.val[x]]]

EmptyDict == [keys |-> <<>>, val |-> [x \in {} |-> <<>>]]

DefaultCategories == DictSet(EmptyDict, "Uncategorized", <<>>)

json_dump(d) == [i \in 1..Len(d.keys) |-> << d.keys[i], d.val[d.keys[i]] >>]

RECURSIVE json_load_from(_, _, _)
json_load_from(members, i, d) ==
    IF i > Len(members) THEN d
    ELSE json_load_from(members, i + 1, DictSet(d, members[i][1], members[i][2]))

json_load(members) == json_load_from(members, 1, EmptyDict)

NoFile == [exists |-> FALSE, data |-> <<>>]

\* A mutation that is not written back.
save_categories_skipped(fl, cats) == fl

save_categories(fl, cats) == [exists |-> TRUE, data |-> json_dump(cats)]

\* Module prologue: the session's mapping, replaced by the file's when there is one.
load_categories(session_cats, fl) ==
    IF fl.exists THEN json_load(fl.data) ELSE session_cats

-----------------------------------------------------------------------------
(* categories_transactions *)

\* First match wins: a category already assigned is kept.
assign_first(current, category) == IF current = "Uncategorized" THEN category ELSE current

\* df.at[idx, "Category"] = category : every match overwrites.
assign(current, category) == category

\* The fallback's own keyword list is matched like any other.
skipped_unless_empty(category, keywords) == keywords = <<>>

\* if category == "Uncategorized" or not keywords: continue
skipped(category, keywords) == category = "Uncategorized" \/ keywords = <<>>

lowered_keywords(keywords) == [j \in 1..Len(keywords) |-> strip(lower(keywords[j]))]

\* details in lowered_keywords
matches(details, keywords) == strip(lower(details)) \in Range(lowered_keywords(keywords))

\* The category one row ends with: the loop over the mapping's items, from item i on.
RECURSIVE classify_from(_, _, _, _)
classify_from(cats, details, i, current) ==
    IF i > Len(cats.keys) THEN current
    ELSE LET category == cats.keys[i]
             keywords == cats.val[category]
         IN  IF skipped(category, keywords)
             THEN classify_from(cats, details, i + 1, current)
             ELSE classify_from(cats, details, i + 1,
                                IF matches(details, keywords) THEN assign(current, category) ELSE current)

classify(cats, details) == classify_from(cats, details, 1, "Uncategorized")

\* row["Details"] is evaluated only inside the loops: with a category that is not
\* skipped and at least one row.
reads_details(cats, table) ==
    /\ table.rows # <<>>
    /\ \E i \in 1..Len(cats.keys) : ~skipped(cats.keys[i], cats.val[cats.keys[i]])

categories_transactions(table, cats) ==
    [columns |-> table.columns \cup {"Category"},
     rows    |-> [i \in 1..Len(table.rows) |->
                    [idx      |-> i,
                     Details  |-> table.rows[i].Details,
                     DC       |-> table.rows[i].DC,
                     Category |-> IF "Details" \in table.columns
                                  THEN classify(cats, table.rows[i].Details)
                                  ELSE "Uncategorized"]]]

\* None is the caught exception (st.error); a missing Amount, Date or (when read)
\* Details column raises KeyError inside the try.
load_transactions(table, cats) ==
    IF "Amount" \notin table.columns THEN None
    ELSE IF "Date" \notin table.columns THEN None
    ELSE IF "Details" \notin table.columns /\ reads_details(cats, table) THEN None
    ELSE categories_transactions(table, cats)

-----------------------------------------------------------------------------
(* add_keyword_to_category *)

\* The keyword is stored without the membership test.
add_keyword_unchecked(cats, fl, category, keyword) ==
    LET kw == strip(keyword)
    IN  IF kw = <<>> THEN [categories |-> cats, file |-> fl, ret |-> "False"]
        ELSE IF category \notin DictKeys(cats) THEN [categories |-> cats, file |-> fl, ret |-> "KeyError"]
        ELSE LET cats1 == DictSet(cats, category, Append(cats.val[category], kw))
             IN  [categories |-> cats1, file |-> save_categories(fl, cats1), ret |-> "True"]

\* ret is "True", "False", or "KeyError" when categories[category] does not exist
\* (the lookup happens only when the stripped keyword is not empty).
add_keyword_to_category(cats, fl, category, keyword) ==
    LET kw == strip(keyword)
    IN  IF kw = <<>> THEN [categories |-> cats, file |-> fl, ret |-> "False"]
        ELSE IF category \notin DictKeys(cats) THEN [categories |-> cats, file |-> fl, ret |-> "KeyError"]
        ELSE IF kw \in Range(cats.val[category]) THEN [categories |-> cats, file |-> fl, ret |-> "False"]
        ELSE LET cats1 == DictSet(cats, category, Append(cats.val[category], kw))
             IN  [categories |-> cats1, file |-> save_categories(fl, cats1), ret |-> "True"]

-----------------------------------------------------------------------------
(* main *)

\* df[df["Debit/Credit"] == direction]
with_direction(df, direction) ==
    [columns |-> df.columns, rows |-> SelectSeq(df.rows, LAMBDA r : r.DC = direction)]

\* The widget state of st.data_editor: per row index, the category picked or Keep.
Keep == "(unedited)"

\* st.data_editor(...): the rows of the working set with the user's picks.
data_editor(df, edits) ==
    [i \in 1..Len(df.rows) |->
        IF edits[df.rows[i].idx] = Keep THEN df.rows[i]
        ELSE [df.rows[i] EXCEPT !.Category = edits[df.rows[i].idx]]]

\* df.at[idx, "Category"]
at(df, idx) == (CHOOSE r \in Range(df.rows) : r.idx = idx).Category

\* The working set is not written.
set_at_skipped(df, idx, category) == df

\* df.at[idx, "Category"] = category
set_at(df, idx, category) ==
    [columns |-> df.columns,
     rows    |-> [i \in 1..Len(df.rows) |->
                    IF df.rows[i].idx = idx THEN [df.rows[i] EXCEPT !.Category = category]
                    ELSE df.rows[i]]]

\* Every row is taken as changed.
same_category_never(row, stored) == FALSE

\* if row["Category"] == st.session_state.debits_df.at[idx, "Category"]: continue
same_category(row, stored) == row.Category = stored

\* The loop of "Apply Changes" from row i of the edited view on.
\* st = [categories, file, debits_df, added, raised].
RECURSIVE apply_changes(_, _, _)
apply_changes(edited_df, i, st) ==
    IF i > Len(edited_df) THEN st
    ELSE LET row == edited_df[i]
         IN  IF same_category(row, at(st.debits_df, row.idx))
             THEN apply_changes(edited_df, i + 1, st)
             ELSE LET r  == add_keyword_to_category(st.categories, st.file, row.Category, row.Details)
                      st1 == [categories |-> r.categories,
                              file       |-> r.file,
                              debits_df  |-> set_at(st.debits_df, row.idx, row.Category),
                              added      |-> st.added + (IF r.ret = "True" THEN 1 ELSE 0),
                              raised     |-> r.ret = "KeyError"]
                  IN  IF st1.raised THEN st1 ELSE apply_changes(edited_df, i + 1, st1)

NoButton == [kind |-> "none"]

\* if add_button and new_category: if new_category not in categories: ...
adds_category(cats, name) == name # "" /\ name \notin DictKeys(cats)

\* One run of the script: the prologue, then main().  ss is the session state
\* [categories, sample_file, debits_df, credits_df], up the uploader's value,
\* button the button pressed ([kind |-> "none"], [kind |-> "add", name |-> ..],
\* [kind |-> "apply", edits |-> ..]).  The result is the state at the end of the
\* run, with what the run observed (stored: the working set when the apply loop
\* started; edited: what the editor returned).
RECURSIVE script(_, _, _, _)
script(ss, fl, up, button) ==
    LET cats0        == load_categories(ss.categories, fl)
        current_file == IF up # None THEN up ELSE ss.sample_file
        stop(v)      == [categories |-> cats0, file |-> fl, debits_df |-> ss.debits_df,
                         credits_df |-> ss.credits_df, view |-> v,
                         stored |-> <<>>, edited |-> <<>>, added |-> 0]
    IN  IF current_file = None THEN stop("upload")
        ELSE LET df == load_transactions(current_file, cats0)
             IN  IF df = None THEN stop("error")
                 ELSE IF "Debit/Credit" \notin df.columns THEN stop("exception88")
                 ELSE LET debits  == with_direction(df, "Debit")
                          credits == with_direction(df, "Credit")
                      IN  IF button.kind = "add" /\ adds_category(cats0, button.name)
                          THEN LET cats1 == DictSet(cats0, button.name, <<>>)
                                   fl1   == save_categories(fl, cats1)
                               IN  \* st.rerun()
                                   script([categories |-> cats1, sample_file |-> ss.sample_file,
                                           debits_df |-> debits, credits_df |-> credits],
                                          fl1, up, NoButton)
                          ELSE IF "Details" \notin debits.columns
                          THEN [categories |-> cats0, file |-> fl, debits_df |-> debits,
                                credits_df |-> credits, view |-> "exception107",
                                stored |-> <<>>, edited |-> <<>>, added |-> 0]
                          ELSE IF button.kind = "apply"
                          THEN LET edited_df == data_editor(debits, button.edits)
                                   st == apply_changes(edited_df, 1,
                                            [categories |-> cats0, file |-> fl, debits_df |-> debits,
                                             added |-> 0, raised |-> FALSE])
                               IN  [categories |-> st.categories, file |-> st.file,
                                    debits_df |-> st.debits_df, credits_df |-> credits,
                                    view |-> IF st.raised THEN "exception130" ELSE "tabs",
                                    stored |-> debits.rows, edited |-> edited_df, added |-> st.added]
                          ELSE [categories |-> cats0, file |-> fl, debits_df |-> debits,
                                credits_df |-> credits, view |-> "tabs",
                                stored |-> <<>>, edited |-> <<>>, added |-> 0]

-----------------------------------------------------------------------------
(* The interactions *)

Session == [categories |-> categories, sample_file |-> sample_file,
            debits_df |-> debits_df, credits_df |-> credits_df]

\* st.session_state of a new browser session, after the prologue's default.
NewSessionState == [categories |-> DefaultCategories, sample_file |-> None,
                    debits_df |-> None, credits_df |-> None]

Observed(op, name, r) ==
    [op |-> op, name |-> name, keyword |-> <<>>, ret |-> "",
     stored |-> r.stored, edited |-> r.edited, added |-> r.added]

\* The state at the end of a script run r.
Finish(r) ==
    /\ categories' = r.categories
    /\ file' = r.file
    /\ debits_df' = r.debits_df
    /\ credits_df' = r.credits_df
    /\ view' = r.view

Init ==
    /\ categories = DefaultCategories
    /\ file = NoFile
    /\ uploaded_file = None
    /\ sample_file = None
    /\ debits_df = None
    /\ credits_df = None
    /\ view = "upload"
    /\ last = [op |-> "run", name |-> "", keyword |-> <<>>, ret |-> "",
               stored |-> <<>>, edited |-> <<>>, added |-> 0]

\* The user picks a CSV file in the uploader, or removes it.
Upload(t) ==
    /\ uploaded_file' = t
    /\ UNCHANGED sample_file
    /\ LET r == script(Session, file, t, NoButton)
       IN  Finish(r) /\ last' = Observed("run", "", r)

\* "Press to use Sample Bank Statement".
PressSample ==
    /\ sample_file' = SampleTable
    /\ UNCHANGED uploaded_file
    /\ LET r == script([Session EXCEPT !.sample_file = SampleTable], file, uploaded_file, NoButton)
       IN  Finish(r) /\ last' = Observed("run", "", r)

\* Any other widget interaction (typing a name, editing a cell): a run with no button.
Rerun ==
    /\ UNCHANGED <<uploaded_file, sample_file>>
    /\ LET r == script(Session, file, uploaded_file, NoButton)
       IN  Finish(r) /\ last' = Observed("run", "", r)

\* "Add Category" with the text input holding name.
AddCategory(name) ==
    /\ view \in {"tabs", "exception107"}
    /\ UNCHANGED <<uploaded_file, sample_file>>
    /\ LET r == script(Session, file, uploaded_file, [kind |-> "add", name |-> name])
       IN  Finish(r) /\ last' = Observed("add_category", name, r)

\* The picks the editor can hold: per row of the working set, a key of the mapping or none.
Edits ==
    LET shown == IF debits_df = None THEN {} ELSE { row.idx : row \in Range(debits_df.rows) }
    IN  { e \in [1..MaxRows -> DictKeys(load_categories(categories, file)) \cup {Keep}] :
            \A i \in 1..MaxRows : e[i] # Keep => i \in shown }

\* "Apply Changes" with the editor holding some picks.
ApplyChanges ==
    /\ view = "tabs"
    /\ UNCHANGED <<uploaded_file, sample_file>>
    /\ \E edits \in Edits :
          LET r == script(Session, file, uploaded_file, [kind |-> "apply", edits |-> edits])
          IN  Finish(r) /\ last' = Observed("apply", "", r)

\* The page is opened in a new browser session: empty session state, empty widgets.
NewSession ==
    /\ uploaded_file' = None
    /\ sample_file' = None
    /\ LET r == script(NewSessionState, file, None, NoButton)
       IN  Finish(r) /\ last' = Observed("run", "", r)

Next ==
    \/ \E t \in Tables \cup {None} : Upload(t)
    \/ PressSample
    \/ Rerun
    \/ \E name \in CategoryNames : AddCategory(name)
    \/ ApplyChanges
    \/ NewSession

Spec == Init /\ [][Next]_vars

-----------------------------------------------------------------------------
(* The two functions on their own: categories_transactions and               *)
(* add_keyword_to_category called with arguments drawn from bounded sets,     *)
(* on every mapping the program can hold over those sets.                     *)

MaxKeywords == 2

\* Details texts to classify: also mixed case, padded, and one that only contains a keyword.
ClassifyTexts == { <<"a">>, <<"A", " ">>, <<" ", "a">>, <<"a", "b">>, <<" ">> }

\* Keyword arguments: also the empty text.
KeywordTexts == { <<>>, <<" ">>, <<"a">>, <<"A", " ">> }

StoredKeywords == { <<"a">>, <<"A">> }

KeywordLists ==
    { l \in SeqsUpTo(StoredKeywords, MaxKeywords) : \A i, j \in 1..Len(l) : l[i] = l[j] => i = j }

KeyOrders ==
    { <<"Uncategorized">>, <<"Uncategorized", "Food">>, <<"Uncategorized", "Rent">>,
      <<"Uncategorized", "Food", "Rent">>, <<"Uncategorized", "Rent", "Food">> }

Mappings == UNION { { [keys |-> o, val |-> v] : v \in [Range(o) -> KeywordLists] } : o \in KeyOrders }

ClassifyTables ==
    { [columns |-> RequiredColumns, rows |-> << [Details |-> d, DC |-> "Debit"] >>] : d \in ClassifyTexts }

InitFn ==
    /\ categories \in Mappings
    /\ file = NoFile
    /\ uploaded_file = None
    /\ sample_file = None
    /\ debits_df = None
    /\ credits_df = None
    /\ view = "upload"
    /\ last = [op |-> "run", name |-> "", keyword |-> <<>>, ret |-> "",
               stored |-> <<>>, edited |-> <<>>, added |-> 0]

CallClassify(t) ==
    /\ debits_df' = categories_transactions(t, categories)
    /\ last' = [op |-> "classify", name |-> "", keyword |-> <<>>, ret |-> "",
                stored |-> <<>>, edited |-> <<>>, added |-> 0]
    /\ UNCHANGED <<categories, file, uploaded_file, sample_file, credits_df, view>>

CallAddKeyword(category, keyword) ==
    /\ LET r == add_keyword_to_category(categories, file, category, keyword)
       IN  /\ categories' = r.categories
           /\ file' = r.file
           /\ last' = [op |-> "add_keyword", name |-> category, keyword |-> keyword, ret |-> r.ret,
                       stored |-> <<>>, edited |-> <<>>, added |-> 0]
    /\ UNCHANGED <<uploaded_file, sample_file, debits_df, credits_df, view>>

NextFn ==
    \/ \E t \in ClassifyTables : CallClassify(t)
    \/ \E c \in CategoryNames \ {""}, k \in KeywordTexts : CallAddKeyword(c, k)

SpecFn == InitFn /\ [][NextFn]_vars

-----------------------------------------------------------------------------
(* The application together with direct calls of add_keyword_to_category:    *)
(* every sequence of loads, added categories, added keywords and applied     *)
(* reclassifications.                                                        *)

\* add_keyword_to_category(category, keyword) called on the session's mapping.
AddKeyword(category, keyword) ==
    /\ LET r == add_keyword_to_category(categories, file, category, keyword)
       IN  /\ categories' = r.categories
           /\ file' = r.file
    /\ last' = [op |-> "add_keyword", name |-> "", keyword |-> <<>>, ret |-> "",
                stored |-> <<>>, edited |-> <<>>, added |-> 0]
    /\ UNCHANGED <<uploaded_file, sample_file, debits_df, credits_df, view>>

NextApi ==
    \/ Next
    \/ \E c \in CategoryNames \ {""}, k \in DetailsTexts \cup { <<>> } : AddKeyword(c, k)

SpecApi == Init /\ [][NextApi]_vars

-----------------------------------------------------------------------------
(* Properties *)

\* current_file of the last run.
CurrentFile == IF uploaded_file # None THEN uploaded_file ELSE sample_file

Blank(text) == strip(text) = <<>>

\* Rows (positions of the edited view) whose category the last Apply Changes changed.
Changed(l) == { i \in 1..Len(l.edited) : l.edited[i].Category # l.stored[i].Category }

RECURSIVE SumLen(_, _)
SumLen(d, i) == IF i > Len(d.keys) THEN 0 ELSE Len(d.val[d.keys[i]]) + SumLen(d, i + 1)

\* Number of keywords in the mapping.
KeywordCount(d) == SumLen(d, 1)

\* C1: after every completed operation the category file holds exactly the
\* in-memory mapping (and while no file was ever written, the mapping is still
\* the default one): no mutation is left unsaved.
C1_PersistedEqualsMemory ==
    IF file.exists
    THEN file.data = json_dump(categories) /\ json_load(file.data) = categories
    ELSE categories = DefaultCategories

\* An Apply Changes that added a keyword has just completed, and the file holds it.
C1_Witness ==
    /\ last.op = "apply"
    /\ last.added > 0
    /\ file.exists
    /\ \E m \in Range(file.data) : m[2] # <<>>

\* C2 (as claimed), on its plainest instances (one row changed, non-blank
\* details, a target other than the fallback): after Apply Changes moved a row
\* to category C, a fresh classification of the same details gives C.
C2_LearnedAfterReclassify ==
    (last.op = "apply" /\ Cardinality(Changed(last)) = 1) =>
        \A i \in Changed(last) :
            (~Blank(last.edited[i].Details) /\ last.edited[i].Category # "Uncategorized")
                => classify(categories, last.edited[i].Details) = last.edited[i].Category

\* Categories (positions in the mapping) with a keyword equal to the details
\* after case folding and trimming, the fallback excluded.
Matching(cats, details) ==
    { i \in 1..Len(cats.keys) :
        /\ cats.keys[i] # "Uncategorized"
        /\ \E kw \in Range(cats.val[cats.keys[i]]) : strip(lower(kw)) = strip(lower(details)) }

Last(S) == CHOOSE i \in S : \A j \in S : j <= i

\* C3: a classified row carries the last category, in the mapping's order, that
\* has a keyword equal (not merely contained) to its details after case folding
\* and trimming, and "Uncategorized" when there is none.
C3_LastMatchWins ==
    last.op = "classify" =>
        \A row \in Range(debits_df.rows) :
            LET m == Matching(categories, row.Details)
            IN  row.Category = IF m = {} THEN "Uncategorized" ELSE categories.keys[Last(m)]

\* A row was classified whose details match keywords of two categories.
C3_Witness ==
    /\ last.op = "classify"
    /\ \E row \in Range(debits_df.rows) :
          /\ Cardinality(Matching(categories, row.Details)) = 2
          /\ row.Category = categories.keys[3]

\* C4: in Apply Changes a row whose edited category is the stored one keeps
\* its category and teaches nothing: every keyword the mapping has afterwards was
\* there before or is the trimmed details of a row that did change, and when no
\* row changed the mapping and the file are as before.
C4_SameCategoryIsNoOp ==
    [][ last'.op = "apply" =>
          /\ \A i \in 1..Len(last'.edited) :
                last'.edited[i].Category = last'.stored[i].Category
                    => debits_df'.rows[i].Category = last'.stored[i].Category
          /\ categories'.keys = categories.keys
          /\ \A c \in DictKeys(categories') : \A kw \in Range(categories'.val[c]) :
                \/ kw \in Range(categories.val[c])
                \/ \E i \in Changed(last') :
                      last'.edited[i].Category = c /\ strip(last'.edited[i].Details) = kw
          /\ (Changed(last') = {} => categories' = categories /\ file' = file)
      ]_vars

\* Apply Changes ran over a view with an unchanged (non-blank) row and a changed one.
C4_Witness ==
    /\ last.op = "apply"
    /\ \E i \in 1..Len(last.edited) : i \notin Changed(last) /\ ~Blank(last.edited[i].Details)
    /\ Changed(last) # {}

\* C5 (as claimed): add_keyword_to_category returns False and changes nothing
\* when the trimmed keyword is empty, the category does not exist, or the trimmed
\* keyword is already listed; otherwise it appends the trimmed keyword, saves,
\* and returns True.
C5_AddKeywordContract ==
    [][ last'.op = "add_keyword" =>
          LET kw == strip(last'.keyword)
              c  == last'.name
          IN  IF kw = <<>> \/ c \notin DictKeys(categories) \/ kw \in Range(categories.val[c])
              THEN last'.ret = "False" /\ categories' = categories /\ file' = file
              ELSE /\ last'.ret = "True"
                   /\ categories' = DictSet(categories, c, Append(categories.val[c], kw))
                   /\ file' = [exists |-> TRUE, data |-> json_dump(categories')]
      ]_vars

\* C6 (as claimed): a run on a file without the Debit/Credit column ends in the
\* reported parse error, with the working sets and the rule store as they were.
C6_MissingColumnReported ==
    [][ (CurrentFile' # None /\ "Debit/Credit" \notin CurrentFile'.columns) =>
          /\ view' = "error"
          /\ UNCHANGED <<debits_df, credits_df, categories, file>>
      ]_vars

Taught(cats, l) ==
    { << l.edited[i].Category, strip(l.edited[i].Details) >> :
        i \in { j \in Changed(l) :
                  /\ ~Blank(l.edited[j].Details)
                  /\ strip(l.edited[j].Details) \notin Range(cats.val[l.edited[j].Category]) } }

WithoutFallbackKeywords(cats) == DictSet(cats, "Uncategorized", <<>>)

\* C8: through every sequence of loads, added categories, added keywords and
\* applied reclassifications the mapping has the key "Uncategorized"; Add
\* Category with that name changes neither the mapping nor the file; and the
\* fallback's keyword list is never matched: loading any table gives the same
\* result as with that list emptied.
C8_UncategorizedInvariant ==
    /\ [](/\ "Uncategorized" \in DictKeys(categories)
          /\ \A t \in Tables :
                load_transactions(t, categories)
                    = load_transactions(t, WithoutFallbackKeywords(categories)))
    /\ [][ (last'.op = "add_category" /\ last'.name = "Uncategorized")
              => (categories' = categories /\ file' = file) ]_vars

\* Add Category "Uncategorized" was pressed while the fallback's list holds a
\* keyword that equals a shown row's details.
C8_Witness ==
    /\ last.op = "add_category"
    /\ last.name = "Uncategorized"
    /\ view = "tabs"
    /\ \E row \in Range(debits_df.rows) : matches(row.Details, categories.val["Uncategorized"])

\* C9: no category's keyword list holds a string twice, or an empty or
\* blank-only string.
C9_KeywordsUniqueNonBlank ==
    \A c \in DictKeys(categories) :
        LET l == categories.val[c]
        IN  /\ \A i, j \in 1..Len(l) : l[i] = l[j] => i = j
            /\ \A i \in 1..Len(l) : ~Blank(l[i])

\* Apply Changes changed a blank row and a row whose trimmed details were
\* already listed under the new category: nothing was added.
C9_Witness ==
    /\ last.op = "apply"
    /\ last.added = 0
    /\ \E i \in Changed(last) : Blank(last.edited[i].Details)
    /\ \E i \in Changed(last) :
          strip(last.edited[i].Details) \in Range(categories.val[last.edited[i].Category])

\* C10 (as claimed): the category file, once written, has the member
\* "Uncategorized" with an empty list.
C10_PersistedFallbackEmpty ==
    file.exists => \E m \in Range(file.data) : m[1] = "Uncategorized" /\ m[2] = <<>>

====
